---------------------------- MODULE Spec2Model ----------------------------
(***************************************************************************)
(* Model of the rating ledger of the Discord/Telegram bridge:              *)
(*   src/ranking.go        Ranking (ledger, persistence, commands, voice)  *)
(*   src/unnamed/part_000  main (startup, Discord message handler,         *)
(*                         shutdown hook)                                  *)
(* Go strings are sequences of one-character strings.                      *)
(***************************************************************************)
EXTENDS Integers, Sequences, FiniteSets, TLC

(***************************************************************************)
(* Bounds of the model                                                     *)
(***************************************************************************)
\* messages delivered to the Discord message handler
MaxMsgs == 1
\* monitoring goroutines started over a run
MaxSup == 2
\* positive interval checks of one monitoring goroutine
MaxChecks == 3
\* largest rating in the ledgers GetTop5 is applied to in SpecTop5
MaxTopRating == 1
\* Telegram updates delivered to the update loop of main
MaxUpdates == 2
\* length of the texts given to escapeMarkdownV2
MaxLen == 2

(***************************************************************************)
(* Strings                                                                 *)
(***************************************************************************)
\* the characters that occur in the modelled strings, in code point order
Alphabet ==
  << " ", "!", "+", "-", "0", "1", "2", "5", "7", "8", "9", "<", ">", "@",
     "A", "B", "C", "D", "E", "F",
     "a", "c", "f", "g", "h", "i", "n", "o", "p", "r", "t", "x" >>

CharRank(c) == CHOOSE i \in 1..Len(Alphabet) : Alphabet[i] = c

\* a < b for Go strings (bytewise)
RECURSIVE StrLess(_, _)
StrLess(a, b) ==
  IF b = << >> THEN FALSE
  ELSE IF a = << >> THEN TRUE
  ELSE IF Head(a) = Head(b) THEN StrLess(Tail(a), Tail(b))
  ELSE CharRank(Head(a)) < CharRank(Head(b))

HasPrefix(s, p) == Len(s) >= Len(p) /\ SubSeq(s, 1, Len(p)) = p

HasSuffix(s, p) == Len(s) >= Len(p) /\ SubSeq(s, Len(s) - Len(p) + 1, Len(s)) = p

TrimPrefix(s, p) == IF HasPrefix(s, p) THEN SubSeq(s, Len(p) + 1, Len(s)) ELSE s

TrimSuffix(s, p) == IF HasSuffix(s, p) THEN SubSeq(s, 1, Len(s) - Len(p)) ELSE s

\* strings.Fields: the maximal runs of non-space characters
RECURSIVE FieldsFrom(_, _, _)
FieldsFrom(s, cur, acc) ==
  IF s = << >> THEN (IF cur = << >> THEN acc ELSE Append(acc, cur))
  ELSE IF Head(s) = " "
       THEN FieldsFrom(Tail(s), << >>, IF cur = << >> THEN acc ELSE Append(acc, cur))
       ELSE FieldsFrom(Tail(s), Append(cur, Head(s)), acc)

Fields(s) == FieldsFrom(s, << >>, << >>)

Digits == << "0", "1", "2", "3", "4", "5", "6", "7", "8", "9" >>

IsDigit(c) == \E i \in 1..10 : Digits[i] = c

DigitVal(c) == (CHOOSE i \in 1..10 : Digits[i] = c) - 1

RECURSIVE DigitsVal(_, _)
DigitsVal(s, acc) ==
  IF s = << >> THEN acc ELSE DigitsVal(Tail(s), 10 * acc + DigitVal(Head(s)))

\* strconv.Atoi: an optional sign and at least one decimal digit.
\* The result is [ok |-> BOOLEAN, val |-> Int].
Atoi(s) ==
  LET signed == s # << >> /\ Head(s) \in {"+", "-"}
      body   == IF signed THEN Tail(s) ELSE s
  IN  IF body = << >> \/ \E i \in 1..Len(body) : ~IsDigit(body[i])
      THEN [ok |-> FALSE, val |-> 0]
      ELSE [ok |-> TRUE,
            val |-> IF signed /\ Head(s) = "-"
                    THEN 0 - DigitsVal(body, 0) ELSE DigitsVal(body, 0)]

\* the mention clean-up of HandleChinaCommand and of the !rating command
StripMention(tok) ==
  TrimPrefix(TrimSuffix(TrimPrefix(tok, <<"<", "@">>), <<">">>), <<"!">>)


(***************************************************************************)
(* Identities and configuration                                            *)
(***************************************************************************)
\* Discord user ids
U1 == <<"7">>
U2 == <<"8">>
\* s.State.User.ID, the bridge's own identity
BotID == <<"9">>

\* admin_ids of the admin file, loaded once by NewRanking
AdminIDs == {U1}

\* DISCORD_CHANNEL_ID, and some other text channel
BridgedChannel == "bridged"
OtherChannel == "other"

\* voice channels; "" is the ChannelID of a leave event
VoiceChannels == {"vc1", "vc2"}
NoChannel == ""

\* the users whose voice state the session's state cache tracks
VoiceUsers == {U1}

(***************************************************************************)
(* The ledger: users is map[string]*User, a function from the present      *)
(* keys to User records.                                                   *)
(***************************************************************************)
User(id, rating) == [ID |-> id, Rating |-> rating]

\* make(map[string]*User)
EmptyUsers == [k \in {} |-> User(<< >>, 0)]

\* m[k] = u on a Go map
MapSet(m, k, u) == [x \in (DOMAIN m) \cup {k} |-> IF x = k THEN u ELSE m[x]]

\* the id -> rating mapping a ledger holds
RatingsOf(m) == [k \in DOMAIN m |-> m[k].Rating]

(***************************************************************************)
(* Persistence: users.json.  A file is absent, holds a JSON object (the    *)
(* sequence of its members in file order), or holds bytes that are no      *)
(* complete JSON value (truncated by a failed write, or malformed).        *)
(***************************************************************************)
FileAbsent == [kind |-> "absent", obj |-> << >>]
FileCorrupt == [kind |-> "corrupt", obj |-> << >>]
FileJSON(obj) == [kind |-> "json", obj |-> obj]

\* encoding/json writes the keys of a map in sorted order
RECURSIVE SortedKeys(_)
SortedKeys(S) ==
  IF S = {} THEN << >>
  ELSE LET least == CHOOSE k \in S : \A o \in S \ {k} : StrLess(k, o)
       IN  <<least>> \o SortedKeys(S \ {least})

\* the member written for key k: "k": {"id": ..., "rating": ...}
EncodeMemberMutant(m, k) ==
  [key |-> k, id |-> m[k].ID,
   rating |-> IF m[k].Rating < 0 THEN 0 - m[k].Rating ELSE m[k].Rating]

EncodeMember(m, k) == [key |-> k, id |-> m[k].ID, rating |-> m[k].Rating]

\* encoder.Encode(r.users)
EncodeUsers(m) ==
  LET keys == SortedKeys(DOMAIN m)
  IN  [i \in 1..Len(keys) |-> EncodeMember(m, keys[i])]

\* decoder.Decode(&r.users): every member of the object is stored under its
\* key in the map that is already there, as a fresh User
RECURSIVE DecodeInto(_, _)
DecodeInto(m, obj) ==
  IF obj = << >> THEN m
  ELSE DecodeInto(MapSet(m, Head(obj).key, User(Head(obj).id, Head(obj).rating)),
                  Tail(obj))

\* LoadFromFile on a ledger holding m: [err |-> BOOLEAN, users |-> the map after]
LoadResult(m, f) ==
  IF f.kind = "absent" THEN [err |-> FALSE, users |-> m]
  ELSE IF f.kind = "corrupt" THEN [err |-> TRUE, users |-> m]
  ELSE [err |-> FALSE, users |-> DecodeInto(m, f.obj)]

(***************************************************************************)
(* Reads                                                                   *)
(***************************************************************************)
\* the body of GetRating
RatingIn(m, id) == IF id \in DOMAIN m THEN m[id].Rating ELSE 0

\* all orders in which range may visit the keys of a map
RECURSIVE Orders(_)
Orders(S) ==
  IF S = {} THEN { << >> }
  ELSE UNION { { <<k>> \o o : o \in Orders(S \ {k}) } : k \in S }

\* sort.Slice with less = users[i].Rating > users[j].Rating, on at most 12
\* elements: a stable insertion sort
RECURSIVE InsertSorted(_, _)
InsertSorted(sorted, u) ==
  IF sorted = << >> THEN <<u>>
  ELSE LET last == sorted[Len(sorted)]
       IN  IF u.Rating > last.Rating
           THEN Append(InsertSorted(SubSeq(sorted, 1, Len(sorted) - 1), u), last)
           ELSE Append(sorted, u)

RECURSIVE SortSlice(_, _)
SortSlice(list, acc) ==
  IF list = << >> THEN acc
  ELSE SortSlice(Tail(list), InsertSorted(acc, Head(list)))

TopLimit == 5

\* users[:5] when there are more than five
TruncateMutant(list) == list

Truncate(list) == IF Len(list) > TopLimit THEN SubSeq(list, 1, TopLimit) ELSE list

\* the body of GetTop5 when range visits the keys in the given order
Top5For(m, order) ==
  Truncate(SortSlice([i \in 1..Len(order) |-> m[order[i]]], << >>))


(***************************************************************************)
(* Discord messages                                                        *)
(***************************************************************************)
SP == <<" ">>
China == <<"!", "c", "h", "i", "n", "a">>
Top5 == <<"!", "t", "o", "p", "5">>
Rating == <<"!", "r", "a", "t", "i", "n", "g">>
Mention(id) == <<"<", "@">> \o id \o <<">">>
NickMention(id) == <<"<", "@", "!">> \o id \o <<">">>

\* the contents delivered to the message handler
Contents ==
  { China \o SP \o Mention(U1) \o SP \o <<"+", "1">>,
    China \o SP \o NickMention(U2) \o SP \o <<"-", "1">>,
    China \o SP \o U2 \o SP \o <<"0">>,
    China \o SP \o Mention(U1) \o SP \o <<"x">>,
    China \o SP \o Mention(U1),
    Top5,
    Rating \o SP \o Mention(U1),
    Rating \o SP \o NickMention(U2),
    Rating,
    <<"h", "i">>,
    <<"!", "f", "o", "o">> }

Message(author, channel, content) ==
  [author |-> author, channel |-> channel, content |-> content]

NoMsg == Message(<< >>, "", << >>)

Messages ==
  { Message(U1, BridgedChannel, c) : c \in Contents }
    \cup { Message(U2, BridgedChannel, China \o SP \o Mention(U1) \o SP \o <<"+", "1">>),
           Message(U2, BridgedChannel, China \o SP \o Mention(U1)),
           Message(BotID, BridgedChannel, Top5),
           Message(U1, OtherChannel, China \o SP \o Mention(U1) \o SP \o <<"+", "1">>) }

\* m.Author.Username
Username(id) ==
  CASE id = U1 -> <<"a", "_", "1">>
    [] id = U2 -> <<"b", ".", "!">>
    [] OTHER -> <<"b", "o", "t">>

\* the oldnew pairs of strings.NewReplacer in escapeMarkdownV2
EscapePairs ==
  << << "_", <<"\\", "_">> >>, << "*", <<"\\", "*">> >>, << "[", <<"\\", "[">> >>,
     << "]", <<"\\", "]">> >>, << "(", <<"\\", "(">> >>, << ")", <<"\\", ")">> >>,
     << "~", <<"\\", "~">> >>, << ">", <<"\\", ">">> >>, << "#", <<"\\", "#">> >>,
     << "+", <<"\\", "+">> >>, << "-", <<"\\", "-">> >>, << "=", <<"\\", "=">> >>,
     << "|", <<"\\", "|">> >>, << "{", <<"\\", "{">> >>, << "}", <<"\\", "}">> >>,
     << ".", <<"\\", ".">> >>, << "!", <<"\\", "!">> >> >>

\* what the replacer writes for one character: the new string of the first
\* pair whose old string is the character, else the character
Lookup(c) ==
  LET hits == { i \in 1..Len(EscapePairs) : EscapePairs[i][1] = c }
  IN IF hits = {} THEN << c >>
     ELSE EscapePairs[CHOOSE i \in hits : \A j \in hits : i <= j][2]

\* Replacer.Replace: one pass over the text, left to right
RECURSIVE Replace(_)
Replace(text) ==
  IF text = << >> THEN << >> ELSE Lookup(Head(text)) \o Replace(Tail(text))

escapeMarkdownV2Mutant(text) == Replace(Replace(text))

escapeMarkdownV2(text) == Replace(text)

\* the branch the message handler takes for m
RouteMutant(m) ==
  IF m.author = BotID \/ m.channel # BridgedChannel THEN "drop"
  ELSE IF HasPrefix(m.content, <<"!">>) /\ HasPrefix(m.content, China) THEN "china"
  ELSE IF HasPrefix(m.content, <<"!">>) /\ HasPrefix(m.content, Top5) THEN "top5"
  ELSE IF HasPrefix(m.content, <<"!">>) /\ HasPrefix(m.content, Rating) THEN "rating"
  ELSE "plain"

Route(m) ==
  IF m.author = BotID \/ m.channel # BridgedChannel THEN "drop"
  ELSE IF HasPrefix(m.content, <<"!">>) /\ HasPrefix(m.content, China) THEN "china"
  ELSE IF HasPrefix(m.content, <<"!">>) /\ m.content = Top5 THEN "top5"
  ELSE IF HasPrefix(m.content, <<"!">>) /\ HasPrefix(m.content, Rating) THEN "rating"
  ELSE "plain"

\* what the handler sends: a reply into the Discord channel or a relay to
\* Telegram
Out(to, kind, id, n, top, text) ==
  [to |-> to, kind |-> kind, id |-> id, n |-> n, top |-> top, text |-> text]

Reply(kind) == Out("discord", kind, << >>, 0, << >>, << >>)

(***************************************************************************)
(* Tasks (goroutines) and their positions.  A ledger operation that runs   *)
(* between r.mu.Lock() and the deferred Unlock is one step, enabled while  *)
(* the mutex is free; UpdateRating is two steps, the lookup and the store, *)
(* with the mutex held in between.                                         *)
(***************************************************************************)
SupNames == <<"t1", "t2", "t3", "t4">>

\* the monitoring goroutines, go r.trackUser(...)
SupIds == { SupNames[i] : i \in 1..MaxSup }

\* main, the message handler, the voice-state handler, PeriodicSave, the
\* signal goroutine
Tasks == {"main", "h", "v", "p", "s"} \cup SupIds

NoTask == ""

VARIABLES
  users,            \* r.users
  isModified,       \* r.isModified
  mu,               \* r.mu: the task holding it, or NoTask
  file,             \* users.json
  pc,               \* the position of every task
  rd,               \* UpdateRating: what the map lookup of a task found
  res,              \* HandleChinaCommand: the outcome of its SaveToFile call
  msg,              \* the message the handler is working on
  msgCount,         \* messages delivered so far
  hret,             \* what GetRating / GetTop5 returned to the handler
  sent,             \* what the handler sent for the current message
  voiceStates,      \* the session state cache: user -> voice channel
  vev,              \* the VoiceStateUpdate the voice handler is working on
  sup,              \* the arguments and counters of the monitoring goroutines
  exited,           \* os.Exit was called
  credited,         \* history: id -> rating loaded plus deltas of returned UpdateRating calls
  lastSaved,        \* history: the map written by the last successful save
  mutatedSinceSave, \* history: an insertion or update happened since the last successful save
  lastSave,         \* history: the latest SaveToFile call, its caller and outcome
  budget,           \* the run explored: goroutines started, positive checks of
                    \* each, voice channels that updates carry
  tg,               \* the Telegram update loop of main: the update it is working
                    \* on, the media item, its temporary file, what it sent
  tmp,              \* the files in content/
  updCount          \* Telegram updates delivered so far

vars ==
  << users, isModified, mu, file, pc, rd, res, msg, msgCount, hret, sent,
     voiceStates, vev, sup, exited, credited, lastSaved, mutatedSinceSave,
     lastSave, budget, tg, tmp, updCount >>

ledgerVars ==
  << users, isModified, file, credited, lastSaved, mutatedSinceSave, lastSave >>
handlerVars == << msg, msgCount, hret, sent >>
voiceVars == << voiceStates, vev, sup, budget >>
tgVars == << tg, tmp, updCount >>

NoRead == [exists |-> FALSE, rating |-> 0]
NoRet == [n |-> 0, top |-> << >>]
NoEvent == [user |-> << >>, channel |-> NoChannel]
NoSup == [user |-> << >>, channel |-> NoChannel, checks |-> 0, awarded |-> 0]
NeverSaved == [saved |-> FALSE, users |-> EmptyUsers]
NoSave == [by |-> NoTask, outcome |-> "none", clean |-> FALSE, touched |-> FALSE]
NoUpdate == [chat |-> "", hasMessage |-> FALSE, text |-> << >>, media |-> {}]
NoPath == [kind |-> "", n |-> 0]
NoTg == [upd |-> NoUpdate, kind |-> 0, path |-> NoPath, sent |-> << >>]

\* users.json as the process may find it at startup
InitFiles ==
  { FileAbsent, FileCorrupt,
    FileJSON(EncodeUsers(MapSet(EmptyUsers, U2, User(U2, 2)))) }

\* the state after NewRanking returned, users.json being one of files
Constructed(files) ==
  /\ users = EmptyUsers
  /\ isModified = FALSE
  /\ mu = NoTask
  /\ file \in files
  /\ pc = [t \in Tasks |->
             CASE t = "main" -> "load"
               [] t \in {"h", "v"} -> "idle"
               [] t = "p" -> "save"
               [] t = "s" -> "wait"
               [] OTHER -> "unused"]
  /\ rd = [t \in Tasks |-> NoRead]
  /\ res = "none"
  /\ msg = NoMsg
  /\ msgCount = 0
  /\ hret = NoRet
  /\ sent = << >>
  /\ voiceStates = [u \in VoiceUsers |-> NoChannel]
  /\ vev = NoEvent
  /\ sup = [t \in SupIds |-> NoSup]
  /\ exited = FALSE
  /\ credited = [k \in {} |-> 0]
  /\ lastSaved = NeverSaved
  /\ mutatedSinceSave = FALSE
  /\ lastSave = NoSave
  /\ tg = NoTg
  /\ tmp = {}
  /\ updCount = 0

\* the whole system, with one monitoring goroutine that makes one positive
\* check, and one voice channel in use
Init ==
  /\ Constructed(InitFiles)
  /\ budget = [sups |-> 1, checks |-> 1, channels |-> {"vc1"}]

\* the goroutines and handlers are started after the startup load
Started == pc["main"] # "load" /\ ~exited

Goto(t, p) == pc' = [pc EXCEPT ![t] = p]

(***************************************************************************)
(* The mutex                                                               *)
(***************************************************************************)
CanLockMutant == TRUE

\* r.mu.Lock() returns only while no task holds the mutex
CanLock == mu = NoTask

\* t runs the body of an operation: its r.mu.Lock() returns now, or it has
\* returned in a step of its own (Lock below)
Enter(t) == CanLock \/ mu = t

\* defer r.mu.Unlock()
UnlockedMutant == mu

Unlocked == NoTask

\* where task t calls an operation of the ledger: LoadFromFile; IsAdmin,
\* UpdateRating, SaveToFile, GetTop5, GetRating; AddUser; SaveToFile;
\* SaveToFile; UpdateRating
LockPcs(t) ==
  CASE t = "main" -> {"load"}
    [] t = "h" -> {"china_isAdmin", "china_upd", "china_save", "top5", "rating"}
    [] t = "v" -> {"add"}
    [] t = "p" -> {"save"}
    [] t = "s" -> {"wait"}
    [] OTHER -> {"upd"}

\* r.mu.Lock() of the operation t is calling returns; the body and the
\* deferred Unlock follow in a later step
Lock(t) ==
  /\ ~exited
  /\ t = "main" \/ Started
  /\ pc[t] \in LockPcs(t)
  /\ CanLock
  /\ mu' = t
  /\ UNCHANGED << ledgerVars, handlerVars, voiceVars, pc, rd, res, exited, tgVars >>

(***************************************************************************)
(* Startup: ranking.LoadFromFile("users.json") in main                     *)
(***************************************************************************)
LoadFromFile ==
  /\ ~exited
  /\ pc["main"] = "load"
  /\ Enter("main")
  /\ users' = LoadResult(users, file).users
  /\ credited' = RatingsOf(users')
  /\ Goto("main", "run")
  /\ mu' = Unlocked
  /\ UNCHANGED << isModified, file, lastSaved, mutatedSinceSave, lastSave,
                  handlerVars, voiceVars, rd, res, exited, tgVars >>

(***************************************************************************)
(* UpdateRating(id, points), called by HandleChinaCommand and trackUser    *)
(***************************************************************************)
\* !china <target> <points>: the fields of the command
ChinaParts(m) == Fields(m.content)
ChinaTarget(m) == StripMention(ChinaParts(m)[2])
ChinaPoints(m) == Atoi(ChinaParts(m)[3])

UpdId(t) == IF t = "h" THEN ChinaTarget(msg) ELSE sup[t].user
UpdPoints(t) == IF t = "h" THEN ChinaPoints(msg).val ELSE 1

\* r.mu.Lock(); user, exists := r.users[id]
UpdateRatingRead(t) ==
  /\ ~exited
  /\ pc[t] \in {"china_upd", "upd"}
  /\ Enter(t)
  /\ mu' = t
  /\ rd' = [rd EXCEPT ![t] =
              [exists |-> UpdId(t) \in DOMAIN users,
               rating |-> RatingIn(users, UpdId(t))]]
  /\ Goto(t, IF t = "h" THEN "china_upd_rd" ELSE "upd_rd")
  /\ UNCHANGED << ledgerVars, handlerVars, voiceVars, res, exited, tgVars >>

\* the record UpdateRating stores: Rating += points, or a new User
UpdatedUserMutant(t) ==
  IF rd[t].exists
  THEN User(users[UpdId(t)].ID, rd[t].rating + UpdPoints(t))
  ELSE User(<< >>, UpdPoints(t))

UpdatedUser(t) ==
  IF rd[t].exists
  THEN User(users[UpdId(t)].ID, rd[t].rating + UpdPoints(t))
  ELSE User(UpdId(t), UpdPoints(t))

\* the store, r.isModified = true and the deferred Unlock
UpdateRatingWrite(t) ==
  /\ ~exited
  /\ pc[t] \in {"china_upd_rd", "upd_rd"}
  /\ users' = MapSet(users, UpdId(t), UpdatedUser(t))
  /\ isModified' = TRUE
  /\ mutatedSinceSave' = TRUE
  /\ credited' = [k \in (DOMAIN credited) \cup {UpdId(t)} |->
                    IF k = UpdId(t)
                    THEN (IF k \in DOMAIN credited THEN credited[k] ELSE 0) + UpdPoints(t)
                    ELSE credited[k]]
  /\ sup' = IF t = "h" THEN sup
            ELSE [sup EXCEPT ![t].awarded =
                    @ + users'[UpdId(t)].Rating - RatingIn(users, UpdId(t))]
  /\ rd' = [rd EXCEPT ![t] = NoRead]
  /\ mu' = Unlocked
  /\ Goto(t, IF t = "h" THEN "china_save" ELSE "wait")
  /\ UNCHANGED << file, lastSaved, lastSave, handlerVars, voiceStates, vev, budget,
                  res, exited, tgVars >>

(***************************************************************************)
(* SaveToFile, called by HandleChinaCommand, PeriodicSave (task "p", at    *)
(* every tick of its 1 s ticker) and the signal goroutine                  *)
(***************************************************************************)
\* where SaveToFile returns to: the signal goroutine logs a failed save
\* before os.Exit
\* a PeriodicSave that returns after its first tick
AfterSaveMutant(t, outcome) ==
  CASE t = "h" -> "china_reply"
    [] t = "p" -> "done"
    [] t = "s" -> IF outcome \in {"skipped", "written"} THEN "exit" ELSE "exit_logged"

AfterSave(t, outcome) ==
  CASE t = "h" -> "china_reply"
    [] t = "p" -> "save"
    [] t = "s" -> IF outcome \in {"skipped", "written"} THEN "exit" ELSE "exit_logged"

\* the caller is at its SaveToFile call (the signal goroutine: sig := <-sigs
\* has returned) and r.mu.Lock() succeeds
AtSave(t) ==
  /\ Started
  /\ pc[t] = (CASE t = "h" -> "china_save" [] t = "p" -> "save" [] t = "s" -> "wait")
  /\ Enter(t)

\* SaveToFile returns to t with the given outcome; touched: os.Create opened
\* (created or truncated) the file
SaveReturns(t, outcome) ==
  /\ lastSave' = [by |-> t, outcome |-> outcome, clean |-> ~mutatedSinceSave,
                  touched |-> outcome \in {"encodeFailed", "written"}]
  /\ res' = IF t = "h" THEN outcome ELSE res
  /\ Goto(t, AfterSave(t, outcome))

\* if !r.isModified { return nil }
SaveNeededMutant == TRUE

SaveNeeded == isModified

SaveToFileSkip(t) ==
  /\ AtSave(t)
  /\ ~SaveNeeded
  /\ SaveReturns(t, "skipped")
  /\ mu' = Unlocked
  /\ UNCHANGED << users, isModified, file, credited, lastSaved, mutatedSinceSave,
                  handlerVars, voiceVars, rd, exited, tgVars >>

\* os.Create fails: nothing is written
SaveToFileCreateFails(t) ==
  /\ AtSave(t)
  /\ SaveNeeded
  /\ SaveReturns(t, "createFailed")
  /\ mu' = Unlocked
  /\ UNCHANGED << users, isModified, file, credited, lastSaved, mutatedSinceSave,
                  handlerVars, voiceVars, rd, exited, tgVars >>

\* os.Create truncated the file and encoder.Encode fails on the write
SaveToFileEncodeFails(t) ==
  /\ AtSave(t)
  /\ SaveNeeded
  /\ file' = FileCorrupt
  /\ SaveReturns(t, "encodeFailed")
  /\ mu' = Unlocked
  /\ UNCHANGED << users, isModified, credited, lastSaved, mutatedSinceSave,
                  handlerVars, voiceVars, rd, exited, tgVars >>

SaveToFileWrites(t) ==
  /\ AtSave(t)
  /\ SaveNeeded
  /\ file' = FileJSON(EncodeUsers(users))
  /\ isModified' = FALSE
  /\ lastSaved' = [saved |-> TRUE, users |-> users]
  /\ mutatedSinceSave' = FALSE
  /\ SaveReturns(t, "written")
  /\ mu' = Unlocked
  /\ UNCHANGED << users, credited, handlerVars, voiceVars, rd, exited, tgVars >>

\* err == nil for an outcome of SaveToFile
SaveOK(r) == r \in {"skipped", "written"}

(***************************************************************************)
(* The Discord message handler (dg.AddHandler in main)                     *)
(***************************************************************************)
CanReceive == Started /\ pc["h"] = "idle" /\ msgCount < MaxMsgs

\* the bridge's own message, or a message of another channel: the handler
\* is at one of its first two returns
ReceiveDropped(m) ==
  /\ CanReceive
  /\ Route(m) = "drop"
  /\ msg' = m
  /\ msgCount' = msgCount + 1
  /\ Goto("h", "ret")
  /\ UNCHANGED << ledgerVars, voiceVars, hret, sent, mu, rd, res, exited, tgVars >>

\* "!china...": ranking.HandleChinaCommand(s, m, m.Content)
ReceiveChina(m) ==
  /\ CanReceive
  /\ Route(m) = "china"
  /\ msg' = m
  /\ msgCount' = msgCount + 1
  /\ Goto("h", "china_isAdmin")
  /\ UNCHANGED << ledgerVars, voiceVars, hret, sent, mu, rd, res, exited, tgVars >>

ReceiveTop5(m) ==
  /\ CanReceive
  /\ Route(m) = "top5"
  /\ msg' = m
  /\ msgCount' = msgCount + 1
  /\ Goto("h", "top5")
  /\ UNCHANGED << ledgerVars, voiceVars, hret, sent, mu, rd, res, exited, tgVars >>

\* "!rating" without a target: the usage reply
ReceiveRatingUsage(m) ==
  /\ CanReceive
  /\ Route(m) = "rating"
  /\ Len(Fields(m.content)) < 2
  /\ msg' = m
  /\ msgCount' = msgCount + 1
  /\ sent' = << Reply("rating_usage") >>
  /\ Goto("h", "ret")
  /\ UNCHANGED << ledgerVars, voiceVars, hret, mu, rd, res, exited, tgVars >>

ReceiveRating(m) ==
  /\ CanReceive
  /\ Route(m) = "rating"
  /\ Len(Fields(m.content)) >= 2
  /\ msg' = m
  /\ msgCount' = msgCount + 1
  /\ Goto("h", "rating")
  /\ UNCHANGED << ledgerVars, voiceVars, hret, sent, mu, rd, res, exited, tgVars >>

\* not a command: the text is relayed to Telegram
ReceivePlain(m) ==
  /\ CanReceive
  /\ Route(m) = "plain"
  /\ msg' = m
  /\ msgCount' = msgCount + 1
  /\ sent' = IF m.content # << >>
             THEN << Out("telegram", "relay", escapeMarkdownV2(Username(m.author)),
                         0, << >>, escapeMarkdownV2(m.content)) >>
             ELSE << >>
  /\ Goto("h", "ret")
  /\ UNCHANGED << ledgerVars, voiceVars, hret, mu, rd, res, exited, tgVars >>

\* _, isAdmin := r.admins[userID]
IsAdminMutant(userID) == TRUE

IsAdmin(userID) == userID \in AdminIDs

\* HandleChinaCommand up to its first return or to r.UpdateRating: the
\* author id is cleaned up and looked up under the mutex
AtChinaCheck == ~exited /\ pc["h"] = "china_isAdmin" /\ Enter("h")

ChinaDenied ==
  /\ AtChinaCheck
  /\ ~IsAdmin(StripMention(msg.author))
  /\ sent' = << Reply("denied") >>
  /\ Goto("h", "ret")
  /\ mu' = Unlocked
  /\ UNCHANGED << ledgerVars, voiceVars, msg, msgCount, hret, rd, res, exited, tgVars >>

\* len(parts) < 3
ChinaUsage ==
  /\ AtChinaCheck
  /\ IsAdmin(StripMention(msg.author))
  /\ Len(ChinaParts(msg)) < 3
  /\ sent' = << Reply("china_usage") >>
  /\ Goto("h", "ret")
  /\ mu' = Unlocked
  /\ UNCHANGED << ledgerVars, voiceVars, msg, msgCount, hret, rd, res, exited, tgVars >>

\* strconv.Atoi(parts[2]) fails
ChinaNotInteger ==
  /\ AtChinaCheck
  /\ IsAdmin(StripMention(msg.author))
  /\ Len(ChinaParts(msg)) >= 3
  /\ ~ChinaPoints(msg).ok
  /\ sent' = << Reply("china_not_integer") >>
  /\ Goto("h", "ret")
  /\ mu' = Unlocked
  /\ UNCHANGED << ledgerVars, voiceVars, msg, msgCount, hret, rd, res, exited, tgVars >>

\* the command is well-formed: r.UpdateRating(targetID, points) is next
ChinaParsed ==
  /\ AtChinaCheck
  /\ IsAdmin(StripMention(msg.author))
  /\ Len(ChinaParts(msg)) >= 3
  /\ ChinaPoints(msg).ok
  /\ Goto("h", "china_upd")
  /\ mu' = Unlocked
  /\ UNCHANGED << ledgerVars, handlerVars, voiceVars, rd, res, exited, tgVars >>

\* the reply after r.SaveToFile("users.json") returned
ChinaReplyOutMutant ==
  Out("discord", "china_confirm", ChinaTarget(msg), ChinaPoints(msg).val, << >>, << >>)

ChinaReplyOut ==
  IF SaveOK(res)
  THEN Out("discord", "china_confirm", ChinaTarget(msg), ChinaPoints(msg).val, << >>, << >>)
  ELSE Reply("china_save_failed")

ChinaReply ==
  /\ ~exited
  /\ pc["h"] = "china_reply"
  /\ sent' = << ChinaReplyOut >>
  /\ Goto("h", "ret")
  /\ UNCHANGED << ledgerVars, voiceVars, msg, msgCount, hret, mu, rd, res, exited, tgVars >>

\* ranking.GetTop5() under the mutex; range visits the map in any order
GetTop5 ==
  /\ ~exited
  /\ pc["h"] = "top5"
  /\ Enter("h")
  /\ \E order \in Orders(DOMAIN users) :
       hret' = [n |-> 0, top |-> Top5For(users, order)]
  /\ Goto("h", "top5_reply")
  /\ mu' = Unlocked
  /\ UNCHANGED << ledgerVars, voiceVars, msg, msgCount, sent, rd, res, exited, tgVars >>

Top5Reply ==
  /\ ~exited
  /\ pc["h"] = "top5_reply"
  /\ sent' = IF Len(hret.top) = 0
             THEN << Reply("top_empty") >>
             ELSE << Out("discord", "top", << >>, 0, hret.top, << >>) >>
  /\ Goto("h", "ret")
  /\ UNCHANGED << ledgerVars, voiceVars, msg, msgCount, hret, mu, rd, res, exited, tgVars >>

\* the target of !rating <mention>
RatingTarget(m) == StripMention(Fields(m.content)[2])

GetRatingMutant ==
  /\ ~exited
  /\ pc["h"] = "rating"
  /\ Enter("h")
  /\ hret' = [n |-> RatingIn(users, RatingTarget(msg)), top |-> << >>]
  /\ users' = IF RatingTarget(msg) \in DOMAIN users THEN users
              ELSE MapSet(users, RatingTarget(msg), User(RatingTarget(msg), 0))
  /\ Goto("h", "rating_reply")
  /\ mu' = Unlocked
  /\ UNCHANGED << isModified, file, credited, lastSaved, mutatedSinceSave, lastSave,
                  voiceVars, msg, msgCount, sent, rd, res, exited, tgVars >>

\* ranking.GetRating(userID) under the mutex
GetRating ==
  /\ ~exited
  /\ pc["h"] = "rating"
  /\ Enter("h")
  /\ hret' = [n |-> RatingIn(users, RatingTarget(msg)), top |-> << >>]
  /\ Goto("h", "rating_reply")
  /\ mu' = Unlocked
  /\ UNCHANGED << ledgerVars, voiceVars, msg, msgCount, sent, rd, res, exited, tgVars >>

RatingReply ==
  /\ ~exited
  /\ pc["h"] = "rating_reply"
  /\ sent' = << Out("discord", "rating", RatingTarget(msg), hret.n, << >>, << >>) >>
  /\ Goto("h", "ret")
  /\ UNCHANGED << ledgerVars, voiceVars, msg, msgCount, hret, mu, rd, res, exited, tgVars >>

\* the handler returns
HandlerReturn ==
  /\ ~exited
  /\ pc["h"] = "ret"
  /\ msg' = NoMsg
  /\ hret' = NoRet
  /\ sent' = << >>
  /\ res' = "none"
  /\ Goto("h", "idle")
  /\ UNCHANGED << ledgerVars, voiceVars, msgCount, mu, rd, exited, tgVars >>

(***************************************************************************)
(* TrackVoiceActivity: the VoiceStateUpdate handler                        *)
(***************************************************************************)
CanVoice == Started /\ pc["v"] = "idle"

\* the goroutine slot the next go r.trackUser(...) takes
FreeSlots == { i \in 1..budget.sups : pc[SupNames[i]] = "unused" }
NextSlot == SupNames[CHOOSE i \in FreeSlots : \A j \in FreeSlots : i <= j]

\* v.UserID == s.State.User.ID
IsSelf(u) == u = BotID

\* v.UserID == s.State.User.ID: return
VoiceEventOfBot(c) ==
  /\ CanVoice
  /\ IsSelf(BotID)
  /\ UNCHANGED vars

\* v.ChannelID == "": the user left; nothing is done
VoiceEventLeave(u) ==
  /\ CanVoice
  /\ ~IsSelf(u)
  /\ voiceStates' = [voiceStates EXCEPT ![u] = NoChannel]
  /\ UNCHANGED << ledgerVars, handlerVars, vev, sup, budget, mu, pc, rd, res,
                  exited, tgVars >>

\* any update that carries a channel: join, move, mute, deafen, ...
VoiceEventInChannel(u, c) ==
  /\ CanVoice
  /\ ~IsSelf(u)
  /\ c \in budget.channels
  /\ FreeSlots # {}
  /\ voiceStates' = [voiceStates EXCEPT ![u] = c]
  /\ vev' = [user |-> u, channel |-> c]
  /\ Goto("v", "add")
  /\ UNCHANGED << ledgerVars, handlerVars, sup, budget, mu, rd, res, exited, tgVars >>

\* AddUser: what the map and the flag are after it
AddUserFlagMutant(id) == isModified

AddUserFlag(id) == IF id \in DOMAIN users THEN isModified ELSE TRUE

AddUserMapMutant(id) == MapSet(users, id, User(id, 0))

AddUserMap(id) == IF id \in DOMAIN users THEN users ELSE MapSet(users, id, User(id, 0))

\* r.AddUser(v.UserID) under the mutex, then go r.trackUser(s, v.UserID, v.ChannelID)
AddUserAndTrack ==
  /\ ~exited
  /\ pc["v"] = "add"
  /\ Enter("v")
  /\ users' = AddUserMap(vev.user)
  /\ isModified' = AddUserFlag(vev.user)
  /\ mutatedSinceSave' = (mutatedSinceSave \/ vev.user \notin DOMAIN users)
  /\ credited' = IF vev.user \in DOMAIN users THEN credited
                 ELSE [k \in (DOMAIN credited) \cup {vev.user} |->
                         IF k = vev.user THEN 0 ELSE credited[k]]
  /\ pc' = [pc EXCEPT !["v"] = "idle", ![NextSlot] = "wait"]
  /\ sup' = [sup EXCEPT ![NextSlot] =
               [user |-> vev.user, channel |-> vev.channel,
                checks |-> 0, awarded |-> 0]]
  /\ vev' = NoEvent
  /\ mu' = Unlocked
  /\ UNCHANGED << file, lastSaved, lastSave, handlerVars, voiceStates, budget,
                  rd, res, exited, tgVars >>

(***************************************************************************)
(* trackUser: one interval check per tick of its 30 s ticker               *)
(***************************************************************************)
Waiting(t) == ~exited /\ pc[t] = "wait"

\* s.UserGuilds fails: return
TrackUserQueryFailsMutant(t) ==
  /\ Waiting(t)
  /\ exited' = TRUE
  /\ Goto(t, "done")
  /\ UNCHANGED << ledgerVars, handlerVars, voiceVars, mu, rd, res, tgVars >>

TrackUserQueryFails(t) ==
  /\ Waiting(t)
  /\ Goto(t, "done")
  /\ UNCHANGED << ledgerVars, handlerVars, voiceVars, mu, rd, res, exited, tgVars >>

\* the scan of the guild's VoiceStates; a failed s.State.Guild skips the guild
InChannelMutant(t, guildErr) == ~guildErr /\ voiceStates[sup[t].user] # NoChannel

InChannel(t, guildErr) == ~guildErr /\ voiceStates[sup[t].user] = sup[t].channel

\* inChannel: r.UpdateRating(userID, 1) is next
TrackUserObserved(t) ==
  /\ Waiting(t)
  /\ sup[t].checks < budget.checks
  /\ InChannel(t, FALSE)
  /\ sup' = [sup EXCEPT ![t].checks = @ + 1]
  /\ Goto(t, "upd")
  /\ UNCHANGED << ledgerVars, handlerVars, voiceStates, vev, budget, mu, rd, res,
                  exited, tgVars >>

\* !inChannel: return
TrackUserNotObserved(t) ==
  /\ Waiting(t)
  /\ \E guildErr \in BOOLEAN : ~InChannel(t, guildErr)
  /\ Goto(t, "done")
  /\ UNCHANGED << ledgerVars, handlerVars, voiceVars, mu, rd, res, exited, tgVars >>

(***************************************************************************)
(* The Telegram update loop of main: for update := range updates           *)
(***************************************************************************)
\* TELEGRAM_CHAT_ID and some other chat
TgChat == "chat"
OtherChat == "otherchat"

\* the media items of a message in the order the loop handles them
MediaKinds == << "photo", "video", "voice" >>

Update(chat, hasMessage, text, media) ==
  [chat |-> chat, hasMessage |-> hasMessage, text |-> text, media |-> media]

\* the updates delivered to the loop
Updates ==
  { Update(TgChat, FALSE, << >>, {}),
    Update(OtherChat, TRUE, <<"h", "i">>, {"photo"}),
    Update(TgChat, TRUE, <<"h", "i">>, {}),
    Update(TgChat, TRUE, << >>, {"photo"}),
    Update(TgChat, TRUE, << >>, {"video"}),
    Update(TgChat, TRUE, <<"h", "i">>, {"photo", "voice"}),
    Update(TgChat, TRUE, << >>, {"photo", "video", "voice"}) }

\* the loop is blocked in range updates
CanUpdate == Started /\ pc["main"] = "run" /\ updCount < MaxUpdates

\* update.Message == nil || update.Message.Chat.ID != chatID: continue
TgDropsMutant(u) == ~u.hasMessage

TgDrops(u) == ~u.hasMessage \/ u.chat # TgChat

TgReceiveDropped(u) ==
  /\ CanUpdate
  /\ TgDrops(u)
  /\ updCount' = updCount + 1
  /\ tg' = [NoTg EXCEPT !.upd = u]
  /\ Goto("main", "continue")
  /\ UNCHANGED << ledgerVars, handlerVars, voiceVars, mu, rd, res, exited, tmp >>

\* continue: back to range updates
TgContinue ==
  /\ ~exited
  /\ pc["main"] = "continue"
  /\ tg' = NoTg
  /\ Goto("main", "run")
  /\ UNCHANGED << ledgerVars, handlerVars, voiceVars, mu, rd, res, exited, tmp,
                  updCount >>

\* the text, if any, is sent to Discord; a failed send is logged
TgReceive(u) ==
  /\ CanUpdate
  /\ ~TgDrops(u)
  /\ updCount' = updCount + 1
  /\ \E ok \in BOOLEAN :
       tg' = [upd |-> u, kind |-> 1, path |-> NoPath,
              sent |-> IF u.text # << >>
                       THEN << [what |-> "text", ok |-> ok] >> ELSE << >>]
  /\ Goto("main", "media")
  /\ UNCHANGED << ledgerVars, handlerVars, voiceVars, mu, rd, res, exited, tmp >>

\* the loop is at the if of media item tg.kind
AtMedia == ~exited /\ pc["main"] = "media"
HasKind == tg.kind <= Len(MediaKinds) /\ MediaKinds[tg.kind] \in tg.upd.media

\* content/photo_%d.jpg etc. with time.Now().UnixNano(): a fresh name
FreshPath == [kind |-> MediaKinds[tg.kind], n |-> 3 * updCount + tg.kind]

TmpFile(path, complete, removeFailed) ==
  [path |-> path, complete |-> complete, removeFailed |-> removeFailed]

\* the message has no item of this kind: the next if
TgSkipKind ==
  /\ AtMedia
  /\ tg.kind <= Len(MediaKinds)
  /\ ~HasKind
  /\ tg' = [tg EXCEPT !.kind = @ + 1]
  /\ UNCHANGED << ledgerVars, handlerVars, voiceVars, mu, pc, rd, res, exited, tmp,
                  updCount >>

\* the end of the loop body
TgNextUpdate ==
  /\ AtMedia
  /\ tg.kind > Len(MediaKinds)
  /\ tg' = NoTg
  /\ Goto("main", "run")
  /\ UNCHANGED << ledgerVars, handlerVars, voiceVars, mu, rd, res, exited, tmp,
                  updCount >>

\* tgBot.GetFileDirectURL fails, or downloadFile fails before os.Create
\* succeeded: continue, nothing was created
TgDownloadFails ==
  /\ AtMedia
  /\ HasKind
  /\ tg' = NoTg
  /\ Goto("main", "run")
  /\ UNCHANGED << ledgerVars, handlerVars, voiceVars, mu, rd, res, exited, tmp,
                  updCount >>

\* downloadFile fails in io.Copy: continue, the file os.Create made stays
TgDownloadBreaks ==
  /\ AtMedia
  /\ HasKind
  /\ tmp' = tmp \cup { TmpFile(FreshPath, FALSE, FALSE) }
  /\ tg' = NoTg
  /\ Goto("main", "run")
  /\ UNCHANGED << ledgerVars, handlerVars, voiceVars, mu, rd, res, exited, updCount >>

\* downloadFile returned nil
TgDownloaded ==
  /\ AtMedia
  /\ HasKind
  /\ tmp' = tmp \cup { TmpFile(FreshPath, TRUE, FALSE) }
  /\ tg' = [tg EXCEPT !.path = FreshPath]
  /\ Goto("main", "send")
  /\ UNCHANGED << ledgerVars, handlerVars, voiceVars, mu, rd, res, exited, updCount >>

\* where the loop goes after sendFileToDiscord returned
AfterSendMutant(ok) == IF ok THEN "remove" ELSE "run"

AfterSend(ok) == "remove"

\* sendFileToDiscord returns nil or an error, which is logged
TgSend ==
  /\ ~exited
  /\ pc["main"] = "send"
  /\ \E ok \in BOOLEAN :
       /\ tg' = IF AfterSend(ok) = "run" THEN NoTg
                ELSE [tg EXCEPT !.sent = Append(@, [what |-> MediaKinds[tg.kind], ok |-> ok])]
       /\ Goto("main", AfterSend(ok))
  /\ UNCHANGED << ledgerVars, handlerVars, voiceVars, mu, rd, res, exited, tmp,
                  updCount >>

\* os.Remove(path) removes the file
TgRemove ==
  /\ ~exited
  /\ pc["main"] = "remove"
  /\ tmp' = { f \in tmp : f.path # tg.path }
  /\ tg' = [tg EXCEPT !.kind = @ + 1, !.path = NoPath]
  /\ Goto("main", "media")
  /\ UNCHANGED << ledgerVars, handlerVars, voiceVars, mu, rd, res, exited, updCount >>

\* os.Remove(path) fails, which is logged: the file stays
TgRemoveFails ==
  /\ ~exited
  /\ pc["main"] = "remove"
  /\ tmp' = { IF f.path = tg.path THEN TmpFile(f.path, f.complete, TRUE) ELSE f :
              f \in tmp }
  /\ tg' = [tg EXCEPT !.kind = @ + 1, !.path = NoPath]
  /\ Goto("main", "media")
  /\ UNCHANGED << ledgerVars, handlerVars, voiceVars, mu, rd, res, exited, updCount >>

(***************************************************************************)
(* The signal goroutine of main                                            *)
(***************************************************************************)
\* os.Exit(0) after SaveToFile returned
Exit ==
  /\ ~exited
  /\ pc["s"] \in {"exit", "exit_logged"}
  /\ exited' = TRUE
  /\ Goto("s", "exited")
  /\ UNCHANGED << ledgerVars, handlerVars, voiceVars, mu, rd, res, tgVars >>

(***************************************************************************)
(* The system                                                              *)
(***************************************************************************)
Savers == {"h", "p", "s"}

Next ==
  \/ LoadFromFile
  \/ \E t \in {"h"} \cup SupIds : UpdateRatingRead(t) \/ UpdateRatingWrite(t)
  \/ \E t \in Savers : \/ SaveToFileSkip(t)
                       \/ SaveToFileCreateFails(t)
                       \/ SaveToFileEncodeFails(t)
                       \/ SaveToFileWrites(t)
  \/ \E m \in Messages : \/ ReceiveDropped(m)
                         \/ ReceiveChina(m)
                         \/ ReceiveTop5(m)
                         \/ ReceiveRatingUsage(m)
                         \/ ReceiveRating(m)
                         \/ ReceivePlain(m)
  \/ ChinaDenied \/ ChinaUsage \/ ChinaNotInteger \/ ChinaParsed
  \/ ChinaReply
  \/ GetTop5 \/ Top5Reply
  \/ GetRating \/ RatingReply
  \/ HandlerReturn
  \/ \E c \in VoiceChannels \cup {NoChannel} : VoiceEventOfBot(c)
  \/ \E u \in VoiceUsers : VoiceEventLeave(u)
  \/ \E u \in VoiceUsers, c \in VoiceChannels : VoiceEventInChannel(u, c)
  \/ AddUserAndTrack
  \/ \E t \in SupIds : \/ TrackUserQueryFails(t)
                       \/ TrackUserObserved(t)
                       \/ TrackUserNotObserved(t)
  \/ Exit

Spec == Init /\ [][Next]_vars

(***************************************************************************)
(* The voice side alone: the VoiceStateUpdate handler and up to MaxSup     *)
(* monitoring goroutines of up to MaxChecks positive checks each           *)
(***************************************************************************)
InitVoice ==
  /\ Constructed(InitFiles)
  /\ budget = [sups |-> MaxSup, checks |-> MaxChecks, channels |-> VoiceChannels]

NextVoice ==
  \/ LoadFromFile
  \/ \E t \in SupIds : UpdateRatingRead(t) \/ UpdateRatingWrite(t)
  \/ \E c \in VoiceChannels \cup {NoChannel} : VoiceEventOfBot(c)
  \/ \E u \in VoiceUsers : VoiceEventLeave(u)
  \/ \E u \in VoiceUsers, c \in VoiceChannels : VoiceEventInChannel(u, c)
  \/ AddUserAndTrack
  \/ \E t \in SupIds : \/ TrackUserQueryFails(t)
                       \/ TrackUserObserved(t)
                       \/ TrackUserNotObserved(t)

SpecVoice == InitVoice /\ [][NextVoice]_vars

(***************************************************************************)
(* The voice side next to the periodic saver: up to MaxSup monitoring      *)
(* goroutines of one positive check each, in one voice channel             *)
(***************************************************************************)
InitVoiceSave ==
  /\ Constructed(InitFiles)
  /\ budget = [sups |-> MaxSup, checks |-> 1, channels |-> {"vc1"}]

NextVoiceSave ==
  \/ LoadFromFile
  \/ \E t \in SupIds : UpdateRatingRead(t) \/ UpdateRatingWrite(t)
  \/ SaveToFileSkip("p")
  \/ SaveToFileCreateFails("p")
  \/ SaveToFileEncodeFails("p")
  \/ SaveToFileWrites("p")
  \/ \E c \in VoiceChannels \cup {NoChannel} : VoiceEventOfBot(c)
  \/ \E u \in VoiceUsers : VoiceEventLeave(u)
  \/ \E u \in VoiceUsers, c \in VoiceChannels : VoiceEventInChannel(u, c)
  \/ AddUserAndTrack
  \/ \E t \in SupIds : \/ TrackUserQueryFails(t)
                       \/ TrackUserObserved(t)
                       \/ TrackUserNotObserved(t)

SpecVoiceSave == InitVoiceSave /\ [][NextVoiceSave]_vars

(***************************************************************************)
(* The message handler next to the periodic saver, on the messages of the  *)
(* whole system and on commands with surplus arguments or a longer first   *)
(* word                                                                    *)
(***************************************************************************)
CmdContents ==
  { China \o SP \o NickMention(U2) \o SP \o <<"+", "1">> \o SP \o <<"x">>,
    China \o <<"x">> \o SP \o Mention(U2) \o SP \o <<"+", "1">>,
    Rating \o <<"x">> \o SP \o Mention(U2),
    Rating \o SP \o Mention(U2) \o SP \o <<"x">>,
    Top5 \o SP \o <<"x">>,
    Top5 \o <<"x">> }

CmdMessages ==
  Messages
    \cup { Message(U1, BridgedChannel, c) : c \in CmdContents }
    \cup { Message(U2, BridgedChannel, China \o <<"x">>) }

InitCmd ==
  /\ Constructed(InitFiles)
  /\ budget = [sups |-> 0, checks |-> 0, channels |-> {}]

NextCmd ==
  \/ LoadFromFile
  \/ UpdateRatingRead("h")
  \/ UpdateRatingWrite("h")
  \/ \E t \in {"h", "p"} : \/ SaveToFileSkip(t)
                          \/ SaveToFileCreateFails(t)
                          \/ SaveToFileEncodeFails(t)
                          \/ SaveToFileWrites(t)
  \/ \E m \in CmdMessages : \/ ReceiveDropped(m)
                            \/ ReceiveChina(m)
                            \/ ReceiveTop5(m)
                            \/ ReceiveRatingUsage(m)
                            \/ ReceiveRating(m)
                            \/ ReceivePlain(m)
  \/ ChinaDenied \/ ChinaUsage \/ ChinaNotInteger \/ ChinaParsed
  \/ ChinaReply
  \/ GetTop5 \/ Top5Reply
  \/ GetRating \/ RatingReply
  \/ HandlerReturn

SpecCmd == InitCmd /\ [][NextCmd]_vars

(***************************************************************************)
(* The Telegram update loop alone                                          *)
(***************************************************************************)
InitTelegram ==
  /\ Constructed({FileAbsent})
  /\ budget = [sups |-> 0, checks |-> 0, channels |-> {}]

NextTelegram ==
  \/ LoadFromFile
  \/ \E u \in Updates : TgReceiveDropped(u) \/ TgReceive(u)
  \/ TgContinue
  \/ TgSkipKind
  \/ TgNextUpdate
  \/ TgDownloadFails
  \/ TgDownloadBreaks
  \/ TgDownloaded
  \/ TgSend
  \/ TgRemove
  \/ TgRemoveFails

SpecTelegram == InitTelegram /\ [][NextTelegram]_vars

(***************************************************************************)
(* The events the three handlers drop, next to events they handle          *)
(***************************************************************************)
Hi == <<"h", "i">>

DropMessages ==
  { Message(a, c, t) : a \in {U1, BotID}, c \in {BridgedChannel, OtherChannel},
                       t \in {Top5, Hi} }

DropUpdates ==
  { Update(TgChat, FALSE, << >>, {}),
    Update(OtherChat, TRUE, Hi, {}),
    Update(OtherChat, TRUE, << >>, {"photo"}),
    Update(TgChat, TRUE, Hi, {}) }

InitDrop ==
  /\ Constructed({FileAbsent})
  /\ budget = [sups |-> 1, checks |-> 0, channels |-> {"vc1"}]

NextDrop ==
  \/ LoadFromFile
  \/ \E m \in DropMessages : ReceiveDropped(m) \/ ReceiveTop5(m) \/ ReceivePlain(m)
  \/ GetTop5 \/ Top5Reply
  \/ HandlerReturn
  \/ \E u \in DropUpdates : TgReceiveDropped(u) \/ TgReceive(u)
  \/ TgContinue
  \/ TgSkipKind
  \/ TgNextUpdate
  \/ \E c \in {"vc1"} : VoiceEventOfBot(c)
  \/ \E u \in VoiceUsers \cup {BotID} :
       \/ VoiceEventLeave(u)
       \/ \E c \in {"vc1"} : VoiceEventInChannel(u, c)
  \/ AddUserAndTrack
  \/ \E t \in SupIds : TrackUserQueryFails(t) \/ TrackUserNotObserved(t)

SpecDrop == InitDrop /\ [][NextDrop]_vars

(***************************************************************************)
(* The relay of plain text to Telegram alone                               *)
(***************************************************************************)
\* the characters of the relayed texts: the ones the replacer knows, the
\* backslash, a letter and the space
EscapeChars == { EscapePairs[i][1] : i \in 1..Len(EscapePairs) } \cup {"\\", "a", " "}

EscapeTexts == UNION { [1..n -> EscapeChars] : n \in 0..MaxLen }

EscapeMessages == { Message(a, BridgedChannel, t) : a \in {U1, U2}, t \in EscapeTexts }

InitEscape ==
  /\ Constructed({FileAbsent})
  /\ budget = [sups |-> 0, checks |-> 0, channels |-> {}]

NextEscape ==
  \/ LoadFromFile
  \/ CanReceive /\ \E m \in EscapeMessages : ReceivePlain(m)
  \/ HandlerReturn

SpecEscape == InitEscape /\ [][NextEscape]_vars

(***************************************************************************)
(* The mutex taken in a step of its own: every task can be stopped between *)
(* r.mu.Lock() and the operation's body                                    *)
(***************************************************************************)
MutexMessages ==
  { Message(U1, BridgedChannel, China \o SP \o Mention(U1) \o SP \o <<"+", "1">>),
    Message(U2, BridgedChannel, China \o SP \o Mention(U1) \o SP \o <<"+", "1">>),
    Message(U1, BridgedChannel, Top5),
    Message(U1, BridgedChannel, Rating \o SP \o Mention(U1)) }

InitMutex ==
  /\ Constructed({FileAbsent})
  /\ budget = [sups |-> 1, checks |-> 1, channels |-> {"vc1"}]

NextMutex ==
  \/ \E t \in Tasks : Lock(t)
  \/ LoadFromFile
  \/ \E t \in SupIds \cup {"h"} : UpdateRatingRead(t) \/ UpdateRatingWrite(t)
  \/ \E t \in Savers : \/ SaveToFileSkip(t)
                        \/ SaveToFileCreateFails(t)
                        \/ SaveToFileEncodeFails(t)
                        \/ SaveToFileWrites(t)
  \/ \E m \in MutexMessages : ReceiveChina(m) \/ ReceiveTop5(m) \/ ReceiveRating(m)
  \/ ChinaDenied \/ ChinaParsed
  \/ ChinaReply
  \/ GetTop5 \/ Top5Reply
  \/ GetRating \/ RatingReply
  \/ HandlerReturn
  \/ \E u \in VoiceUsers, c \in {"vc1"} : VoiceEventInChannel(u, c)
  \/ AddUserAndTrack
  \/ \E t \in SupIds : \/ TrackUserQueryFails(t)
                        \/ TrackUserObserved(t)
                        \/ TrackUserNotObserved(t)
  \/ Exit

SpecMutex == InitMutex /\ [][NextMutex]_vars

(***************************************************************************)
(* The !top5 command alone, on the ledgers that users.json may hold: the   *)
(* six-user ledger A:10 B:30 C:20 D:5 E:40 F:1, and every ledger over      *)
(* these six ids with ratings 0..MaxTopRating                             *)
(***************************************************************************)
TopIds == { <<"A">>, <<"B">>, <<"C">>, <<"D">>, <<"E">>, <<"F">> }

ExampleRatings ==
  [k \in TopIds |->
     CASE k = <<"A">> -> 10 [] k = <<"B">> -> 30 [] k = <<"C">> -> 20
       [] k = <<"D">> -> 5 [] k = <<"E">> -> 40 [] k = <<"F">> -> 1]

\* the ledger holding the id -> rating mapping r
LedgerOf(r) == [k \in DOMAIN r |-> User(k, r[k])]

ExampleLedger == LedgerOf(ExampleRatings)

TopLedgers ==
  { ExampleLedger }
    \cup { LedgerOf(r) : r \in UNION { [S -> 0..MaxTopRating] : S \in SUBSET TopIds } }

TopFiles == { FileJSON(EncodeUsers(m)) : m \in TopLedgers }

InitTop5 ==
  /\ Constructed(TopFiles)
  /\ budget = [sups |-> 0, checks |-> 0, channels |-> {}]

NextTop5 ==
  \/ LoadFromFile
  \/ \E m \in Messages : ReceiveTop5(m)
  \/ GetTop5
  \/ Top5Reply
  \/ HandlerReturn

SpecTop5 == InitTop5 /\ [][NextTop5]_vars


(***************************************************************************)
(* Properties                                                              *)
(***************************************************************************)
\* an UpdateRating call of t has been made and has not returned
InUpdateRating(t) == pc[t] \in {"china_upd", "china_upd_rd", "upd", "upd_rd"}

\* the rating the history credits to id
Credited(id) == IF id \in DOMAIN credited THEN credited[id] ELSE 0

\* C1: whenever every UpdateRating call that was made has returned, the
\* rating of every id is the rating it had after the startup load (0 if it
\* was unknown) plus the sum of the deltas of all calls on that id, whichever
\* tasks made them and however their steps interleaved: no update is lost.
C1_NoUpdateLost ==
  (\A t \in Tasks : ~InUpdateRating(t))
    => \A id \in (DOMAIN users) \cup (DOMAIN credited) :
         RatingIn(users, id) = Credited(id)

\* the command handler and a monitoring goroutine have both updated U1, which
\* was unknown before, the goroutine while the handler was already in its call
C1_Witness ==
  /\ pc["h"] = "china_save"
  /\ ChinaTarget(msg) = U1
  /\ ChinaPoints(msg).val = 1
  /\ \E t \in SupIds : sup[t].user = U1 /\ sup[t].awarded = 1 /\ pc[t] = "wait"
  /\ RatingIn(users, U1) = 2

\* C2 as claimed: once a save has succeeded, isModified is true if and only
\* if the in-memory id -> rating map differs from what that save wrote.
C2_DirtyIffDiffers ==
  lastSaved.saved
    => (isModified <=> RatingsOf(users) # RatingsOf(lastSaved.users))

\* C2 as amended: once a save has succeeded, isModified false implies that the
\* in-memory id -> rating map equals what the last successful save wrote.
C2_CleanImpliesSaved ==
  (lastSaved.saved /\ ~isModified)
    => RatingsOf(users) = RatingsOf(lastSaved.users)

\* a save of a ledger with two records has succeeded and nothing has changed
\* since: the periodic saver is about to call SaveToFile on a clean ledger
C2_Witness ==
  /\ lastSaved.saved
  /\ ~isModified
  /\ Cardinality(DOMAIN users) = 2
  /\ RatingsOf(users) = RatingsOf(lastSaved.users)
  /\ pc["p"] = "save"

\* C3: a SaveToFile call made when no insertion and no update happened since
\* the last successful save opens no file (nothing is created, truncated or
\* rewritten) and returns nil, whichever task made the call.
C3_CleanSaveWritesNothing ==
  lastSave.clean => (~lastSave.touched /\ lastSave.outcome = "skipped")

\* the shutdown save found nothing to write after the periodic save had
\* written the ledger
C3_Witness ==
  /\ lastSave.by = "s"
  /\ lastSave.clean
  /\ lastSave.outcome = "skipped"
  /\ lastSaved.saved
  /\ file = FileJSON(EncodeUsers(users))

\* C4: whenever a save writes the file, LoadFromFile of that file into a
\* fresh ledger succeeds and yields the ids of the saved ledger with the
\* rating of each.
C4_SaveLoadRoundTrip ==
  [][ (file' # file /\ file'.kind = "json")
        => /\ ~LoadResult(EmptyUsers, file').err
           /\ RatingsOf(LoadResult(EmptyUsers, file').users) = RatingsOf(users) ]_vars

\* a ledger with a negative and a zero rating was just written and loads back
C4_Witness ==
  /\ lastSave.outcome = "written"
  /\ ~isModified
  /\ file.kind = "json"
  /\ \E k \in DOMAIN users : users[k].Rating < 0
  /\ \E k \in DOMAIN users : users[k].Rating = 0
  /\ LoadResult(EmptyUsers, file).users = users

\* the ids GetTop5 can list for the ledger m
Top5Ids(m) ==
  UNION { { Top5For(m, order)[i].ID : i \in 1..Len(Top5For(m, order)) } :
          order \in Orders(DOMAIN m) }

\* C5: GetRating, as called for !rating <mention>, changes neither the
\* records nor isModified nor the file; for an id without a record it returns
\* 0, the id has no record afterwards and GetTop5 does not list it, and the
\* reply carries the returned rating.
C5_GetRatingReadsOnly ==
  [][ /\ (pc["h"] = "rating" /\ pc'["h"] # "rating")
        => /\ users' = users /\ isModified' = isModified /\ file' = file
           /\ hret'.n = RatingIn(users, RatingTarget(msg))
           /\ RatingTarget(msg) \notin DOMAIN users
                => /\ hret'.n = 0
                   /\ RatingTarget(msg) \notin DOMAIN users'
                   /\ RatingTarget(msg) \notin Top5Ids(users')
      /\ (pc["h"] = "rating_reply" /\ pc'["h"] # "rating_reply")
        => /\ users' = users /\ isModified' = isModified /\ file' = file
           /\ sent' = << Out("discord", "rating", RatingTarget(msg), hret.n, << >>, << >>) >>
    ]_vars

\* !rating for an id without a record, in a ledger that has another record
C5_Witness ==
  /\ pc["h"] = "ret"
  /\ Route(msg) = "rating"
  /\ Len(Fields(msg.content)) >= 2
  /\ users # EmptyUsers
  /\ RatingTarget(msg) \notin DOMAIN users
  /\ sent = << Out("discord", "rating", RatingTarget(msg), 0, << >>, << >>) >>

\* the ids of the records of list, in order
IdsOf(list) == [i \in 1..Len(list) |-> list[i].ID]

\* C6: GetTop5 returns at most 5 records of distinct users of the ledger, in
\* non-increasing order of rating; every user it leaves out has a rating not
\* above the lowest returned one; a ledger of at most 5 users is returned in
\* full; and for A:10 B:30 C:20 D:5 E:40 F:1 the result is E(40), B(30),
\* C(20), A(10), D(5).
C6_Top5Ordered ==
  [][ (pc["h"] = "top5" /\ pc'["h"] = "top5_reply")
        => LET top == hret'.top
               ids == { top[i].ID : i \in 1..Len(top) }
           IN  /\ Len(top) <= 5
               /\ \A i \in 1..Len(top) :
                    top[i].ID \in DOMAIN users /\ top[i] = users[top[i].ID]
               /\ \A i, j \in 1..Len(top) : i # j => top[i].ID # top[j].ID
               /\ \A i \in 1..(Len(top) - 1) : top[i].Rating >= top[i + 1].Rating
               /\ \A k \in (DOMAIN users) \ ids :
                    \A i \in 1..Len(top) : users[k].Rating <= top[i].Rating
               /\ Cardinality(DOMAIN users) <= 5 => ids = DOMAIN users
               /\ Cardinality(DOMAIN users) > 5 => Len(top) = 5
               /\ users = ExampleLedger
                    => top = << User(<<"E">>, 40), User(<<"B">>, 30), User(<<"C">>, 20),
                                User(<<"A">>, 10), User(<<"D">>, 5) >>
    ]_vars

\* GetTop5 has returned for the six-user example and left F out
C6_Witness ==
  /\ pc["h"] = "top5_reply"
  /\ users = ExampleLedger
  /\ IdsOf(hret.top) = << <<"E">>, <<"B">>, <<"C">>, <<"A">>, <<"D">> >>

\* the handler is working on an adjustment command of a caller outside the
\* admin set
NonAdminChina == msg # NoMsg /\ Route(msg) = "china" /\ msg.author \notin AdminIDs

\* C7: for an adjustment command of a caller who is not an admin, with any
\* arguments, the handler's only reply is the permission-denied one, and no
\* step of the handler changes a rating, creates a record, sets isModified or
\* calls SaveToFile.
C7_NonAdminDenied ==
  [][ (pc'["h"] # pc["h"] /\ NonAdminChina)
        => /\ pc["h"] \in {"china_isAdmin", "ret"}
           /\ pc["h"] = "china_isAdmin"
                => pc'["h"] = "ret" /\ sent' = << Reply("denied") >>
           /\ pc["h"] = "ret" => pc'["h"] = "idle"
           /\ users' = users
           /\ isModified' = isModified
           /\ file' = file
           /\ lastSave' = lastSave
    ]_vars

\* a well-formed adjustment of a non-admin was answered with the denial
C7_Witness ==
  /\ pc["h"] = "ret"
  /\ NonAdminChina
  /\ Len(ChinaParts(msg)) = 3
  /\ ChinaPoints(msg).ok
  /\ sent = << Reply("denied") >>
  /\ RatingIn(users, ChinaTarget(msg)) = 0

\* the handler is working on a well-formed adjustment command of an admin
WellFormedAdmin ==
  /\ msg # NoMsg
  /\ Route(msg) = "china"
  /\ msg.author \in AdminIDs
  /\ Len(ChinaParts(msg)) = 3
  /\ ChinaPoints(msg).ok

\* the confirmation of the adjustment the handler is working on
ChinaConfirm ==
  Out("discord", "china_confirm", ChinaTarget(msg), ChinaPoints(msg).val, << >>, << >>)

\* C8: for a well-formed adjustment command of an admin the handler, in this
\* order and replying nothing before the last step, changes the rating of the
\* normalized target by exactly the delta (a new record gets rating = delta,
\* without floor or ceiling) and no other record, calls SaveToFile, and then
\* replies: with the confirmation if and only if that save returned nil.
C8_AdminAdjusts ==
  [][ (pc'["h"] # pc["h"] /\ WellFormedAdmin)
        => LET id == ChinaTarget(msg)
               delta == ChinaPoints(msg).val
           IN  /\ pc["h"] = "china_isAdmin"
                    => pc'["h"] = "china_upd" /\ sent' = << >> /\ users' = users
               /\ pc["h"] = "china_upd"
                    => pc'["h"] = "china_upd_rd" /\ sent' = << >> /\ users' = users
               /\ pc["h"] = "china_upd_rd"
                    => /\ pc'["h"] = "china_save"
                       /\ sent' = << >>
                       /\ DOMAIN users' = (DOMAIN users) \cup {id}
                       /\ users'[id].Rating = RatingIn(users, id) + delta
                       /\ \A k \in (DOMAIN users) \ {id} : users'[k] = users[k]
               /\ pc["h"] = "china_save"
                    => /\ pc'["h"] = "china_reply"
                       /\ sent' = << >>
                       /\ users' = users
                       /\ lastSave'.by = "h"
                       /\ res' = lastSave'.outcome
               /\ pc["h"] = "china_reply"
                    => /\ pc'["h"] = "ret"
                       /\ users' = users
                       /\ Len(sent') = 1
                       /\ (sent'[1] = ChinaConfirm) <=> SaveOK(res)
                       /\ ~SaveOK(res) => sent'[1] = Reply("china_save_failed")
    ]_vars

\* an admin took a point from an id without a record: the record was created
\* with rating -1, the save wrote the file and the confirmation was sent
C8_Witness ==
  /\ pc["h"] = "ret"
  /\ WellFormedAdmin
  /\ ChinaPoints(msg).val = 0 - 1
  /\ res = "written"
  /\ sent = << ChinaConfirm >>
  /\ RatingIn(users, ChinaTarget(msg)) = 0 - 1
  /\ file = FileJSON(EncodeUsers(users))

\* the monitoring goroutines of user u that have not returned
Alive(u) == { t \in SupIds : pc[t] \in {"wait", "upd", "upd_rd"} /\ sup[t].user = u }

\* C9: at every moment at most one monitoring goroutine is alive per user.
C9_AtMostOneTask == \A u \in VoiceUsers : Cardinality(Alive(u)) <= 1

\* C10: a monitoring goroutine goes on to award only from a check at which
\* the user is in the goroutine's channel, each award raises the user's
\* rating by exactly 1, a check at which the user is not in the channel ends
\* the goroutine, and a goroutine that has ended never awards again: what it
\* has awarded is the number of its positive checks.
C10_TrackUserAwards ==
  [][ \A t \in SupIds :
        /\ (pc[t] = "wait" /\ pc'[t] = "upd")
             => /\ voiceStates[sup[t].user] = sup[t].channel
                /\ sup'[t].checks = sup[t].checks + 1
        /\ (pc[t] = "wait" /\ pc'[t] # "wait" /\ voiceStates[sup[t].user] # sup[t].channel)
             => pc'[t] = "done" /\ sup'[t] = sup[t]
        /\ (pc[t] = "upd_rd" /\ pc'[t] # "upd_rd")
             => /\ pc'[t] = "wait"
                /\ users'[sup[t].user].Rating = RatingIn(users, sup[t].user) + 1
                /\ sup'[t].awarded = sup[t].awarded + 1
        /\ (pc[t] # "upd_rd" /\ pc[t] # "unused") => sup'[t].awarded = sup[t].awarded
        /\ pc[t] = "done" => (pc'[t] = "done" /\ sup'[t] = sup[t])
        /\ pc'[t] \in {"wait", "done"} => sup'[t].awarded = sup'[t].checks
        /\ pc'[t] \in {"upd", "upd_rd"} => sup'[t].awarded = sup'[t].checks - 1
    ]_vars

\* the only goroutine started for a user made three positive checks and
\* returned at the fourth, the user having left: the rating is 3
C10_Witness ==
  \E t \in SupIds :
    /\ pc[t] = "done"
    /\ sup[t].checks = 3
    /\ sup[t].awarded = 3
    /\ \A o \in SupIds \ {t} : pc[o] = "unused"
    /\ voiceStates[sup[t].user] = NoChannel
    /\ RatingIn(users, sup[t].user) = 3

\* C11: an interval check that ends a monitoring goroutine while the user is
\* in its channel (the presence query failed) awards nothing, stops no other
\* task (no position changes but the goroutine's own, the mutex is not held,
\* the process does not exit), and the goroutine never checks or awards again.
C11_QueryFailureEndsTask ==
  [][ \A t \in SupIds :
        /\ (pc[t] = "wait" /\ pc'[t] = "done")
             => /\ pc' = [pc EXCEPT ![t] = "done"]
                /\ exited' = exited /\ ~exited'
                /\ mu' = mu /\ mu' # t
                /\ users' = users /\ isModified' = isModified /\ file' = file
                /\ sup' = sup
                /\ voiceStates' = voiceStates /\ vev' = vev
        /\ pc[t] = "done"
             => /\ pc'[t] = "done"
                /\ sup'[t] = sup[t]
                /\ users' # users => \E o \in SupIds \ {t} : pc[o] = "upd_rd"
    ]_vars

\* a goroutine has ended at its first check without an award while the user
\* is in its channel; another goroutine for the same user has awarded a point
\* and the periodic saver has written the ledger
C11_Witness ==
  \E t, o \in SupIds :
    /\ pc[t] = "done"
    /\ sup[t].checks = 0
    /\ sup[t].awarded = 0
    /\ voiceStates[sup[t].user] = sup[t].channel
    /\ pc[o] = "wait"
    /\ sup[o].awarded = 1
    /\ sup[o].user = sup[t].user
    /\ RatingIn(users, sup[t].user) = 1
    /\ lastSaved.saved
    /\ ~isModified

\* the first word of a message, its command verb
Verb(m) == IF Fields(m.content) = << >> THEN << >> ELSE Fields(m.content)[1]

\* a malformed invocation of a recognised verb: rating without a target, or
\* an adjustment of an admin with other than two arguments or with a delta
\* that is no integer
Malformed(m) ==
  /\ m # NoMsg
  /\ Route(m) # "drop"
  /\ \/ Verb(m) = Rating /\ Len(Fields(m.content)) < 2
     \/ /\ Verb(m) = China
        /\ m.author \in AdminIDs
        /\ (Len(Fields(m.content)) # 3 \/ ~Atoi(Fields(m.content)[3]).ok)

UsageReplies ==
  { Reply("rating_usage"), Reply("china_usage"), Reply("china_not_integer") }

\* C12: while the handler works on a malformed invocation of a recognised
\* verb it changes no record, does not set isModified and calls no
\* SaveToFile, and what it sends is one usage reply into the channel, never
\* nothing and never a relay.
C12_MalformedGetsUsage ==
  [][ (pc'["h"] # pc["h"] /\ Malformed(msg'))
        => /\ users' = users /\ isModified' = isModified /\ file' = file
           /\ lastSave' = lastSave
           /\ pc'["h"] \in {"china_isAdmin", "ret"}
           /\ pc'["h"] = "ret" => (Len(sent') = 1 /\ sent'[1] \in UsageReplies)
    ]_vars


\* C14 as stated: once the loop has passed the upload attempt of a media item
\* (it is at the next item or waits for the next update), no downloaded
\* temporary file exists any more, whether the upload succeeded or failed.
C14_TempFileGone ==
  pc["main"] \in {"run", "media"} => \A f \in tmp : ~f.complete

\* C14 amended: after the upload attempt, successful or failed, os.Remove is
\* called on the temporary file before the next item and the next update; a
\* downloaded file that still exists then is one os.Remove failed to remove,
\* and while the upload is pending the only other downloaded file is the one
\* being uploaded.
C14_TempFileRemoveAttempted ==
  /\ pc["main"] \in {"run", "media"}
       => \A f \in tmp : f.complete => f.removeFailed
  /\ pc["main"] \in {"send", "remove"}
       => /\ tg.path # NoPath
          /\ \A f \in tmp : (f.complete /\ ~f.removeFailed) => f.path = tg.path

\* a photo was downloaded, its upload failed, and the file is gone when the
\* loop reaches the next media item
C14_Witness ==
  /\ pc["main"] = "media"
  /\ tg.kind = 2
  /\ tg.sent # << >>
  /\ tg.sent[Len(tg.sent)] = [what |-> "photo", ok |-> FALSE]
  /\ tmp = {}


\* a message the bridge wrote itself or one of another channel
SelfOrOtherChannel(m) == m.author = BotID \/ m.channel # BridgedChannel

\* an update without a message or one of another chat
NilOrOtherChat(u) == ~u.hasMessage \/ u.chat # TgChat

\* C13: a message written by the bridge itself or arriving on another channel
\* makes the handler return at once: the two steps the handler takes for it
\* dispatch no command, send nothing and leave the ledger, the dirty flag, the
\* file, the mutex and every other task alone; a Telegram update without a
\* message or of another chat makes the loop continue, with nothing sent and no
\* file created; and no voice event of the bridge's own identity is ever
\* handled: it gets no record and no monitoring goroutine.
C13_DroppedHasNoEffect ==
  [][ /\ (msg' # NoMsg /\ SelfOrOtherChannel(msg'))
           => /\ pc'["h"] = "ret"
              /\ sent' = << >>
              /\ hret' = NoRet
      /\ (pc'["h"] # pc["h"] /\ SelfOrOtherChannel(IF msg' # NoMsg THEN msg' ELSE msg))
           => /\ \A t \in Tasks \ {"h"} : pc'[t] = pc[t]
              /\ users' = users /\ isModified' = isModified /\ file' = file
              /\ lastSave' = lastSave
              /\ mu' = mu /\ sent' = sent
              /\ tg' = tg /\ tmp' = tmp
              /\ sup' = sup /\ vev' = vev
      /\ (tg'.upd # NoUpdate /\ NilOrOtherChat(tg'.upd))
           => /\ pc'["main"] = "continue"
              /\ tg'.sent = << >>
      /\ (pc'["main"] # pc["main"] /\ "continue" \in {pc["main"], pc'["main"]})
           => /\ \A t \in Tasks \ {"main"} : pc'[t] = pc[t]
              /\ users' = users /\ isModified' = isModified /\ file' = file
              /\ mu' = mu /\ sent' = sent /\ msg' = msg
              /\ tmp' = tmp
              /\ sup' = sup /\ vev' = vev
      /\ vev'.user # BotID
      /\ BotID \notin DOMAIN users'
      /\ \A t \in SupIds : sup'[t].user # BotID
    ]_vars

\* the handler is returning from a message of the bridge itself, the loop is
\* continuing past an update of another chat, nothing was sent, and a voice
\* event of a user is being handled meanwhile
C13_Witness ==
  /\ pc["h"] = "ret"
  /\ msg.author = BotID
  /\ sent = << >>
  /\ pc["main"] = "continue"
  /\ tg.upd.chat = OtherChat
  /\ tg.upd.hasMessage
  /\ tmp = {}
  /\ users = EmptyUsers
  /\ pc["v"] = "add"
  /\ vev.user = U1


\* the characters MarkdownV2 reserves
Reserved ==
  { "_", "*", "[", "]", "(", ")", "~", ">", "#", "+", "-", "=", "|", "{", "}",
    ".", "!" }

\* where character i of text is in the escaped text: one place further for
\* every reserved character up to and including it
EscapedPos(text, i) == i + Cardinality({ j \in 1..i : text[j] \in Reserved })

\* out is text with one backslash inserted before every reserved character
\* and nothing else changed
EscapedFrom(text, out) ==
  LET kept == { EscapedPos(text, i) : i \in 1..Len(text) }
      keptReserved == { EscapedPos(text, i) : i \in { j \in 1..Len(text) : text[j] \in Reserved } }
  IN /\ Len(out) = EscapedPos(text, Len(text))
     /\ \A i \in 1..Len(text) :
          /\ out[EscapedPos(text, i)] = text[i]
          /\ text[i] \in Reserved
               => /\ out[EscapedPos(text, i) - 1] = "\\"
                  /\ EscapedPos(text, i) - 1 \notin kept
     /\ \A k \in (1..Len(out)) \ kept : k + 1 \in keptReserved
     /\ \A k \in 1..Len(out) : out[k] \in Reserved => k \in keptReserved

\* C15: in the text relayed to Telegram, the author name and the body are each
\* the input with exactly one backslash inserted immediately before every
\* occurrence of a reserved character (_ * [ ] ( ) ~ > # + - = | { } . !),
\* every other character copied unchanged and in order; the two are escaped
\* independently of each other.
C15_EscapeMarkdownV2 ==
  (pc["h"] = "ret" /\ Route(msg) = "plain" /\ msg.content # << >>)
    => /\ Len(sent) = 1
       /\ sent[1].to = "telegram"
       /\ EscapedFrom(msg.content, sent[1].text)
       /\ EscapedFrom(Username(msg.author), sent[1].id)

\* a body that holds a backslash before a reserved character, from an author
\* whose name holds two reserved characters
C15_Witness ==
  /\ pc["h"] = "ret"
  /\ msg.content = << "\\", "!" >>
  /\ msg.author = U2
  /\ Len(sent) = 1
  /\ sent[1].text = << "\\", "\\", "!" >>
  /\ sent[1].id = << "b", "\\", ".", "\\", "!" >>


\* C16: the process exits only from the signal goroutine, after its
\* SaveToFile call returned; and when that call returned nil, the file at
\* exit holds the ledger as of the last successful save, which is the shutdown
\* save or a later one, so every mutation completed before the shutdown save
\* took the lock is in it.
C16_ShutdownSaveDurable ==
  [][ (exited' /\ ~exited)
        => /\ pc["s"] \in {"exit", "exit_logged"}
           /\ (pc["s"] = "exit" /\ lastSaved.saved)
                => /\ file.kind = "json"
                   /\ ~LoadResult(EmptyUsers, file).err
                   /\ RatingsOf(LoadResult(EmptyUsers, file).users)
                        = RatingsOf(lastSaved.users)
    ]_vars


\* a message of a user in the bridged channel that begins with "!"
Bang(m) == m # NoMsg /\ ~SelfOrOtherChannel(m) /\ HasPrefix(m.content, <<"!">>)

\* its first word is exactly one of the three command words
ExactVerb(m) == Verb(m) \in {China, Top5, Rating}

\* it passes one of the three tests of the handler
Recognised(m) ==
  HasPrefix(m.content, China) \/ m.content = Top5 \/ HasPrefix(m.content, Rating)

Relayed(s) == \E i \in 1..Len(s) : s[i].to = "telegram"

\* the step by which the handler takes m as a plain message: the escaped text
\* is sent to Telegram, nothing is replied, the ledger is left alone
PlainStep(m) ==
  /\ pc'["h"] = "ret"
  /\ Len(sent') = 1
  /\ sent'[1].to = "telegram"
  /\ sent'[1].text = escapeMarkdownV2(m.content)
  /\ users' = users /\ isModified' = isModified /\ file' = file
  /\ lastSave' = lastSave
  /\ mu' = mu

\* what is sent for a message is either one relay or replies, and nothing is
\* relayed while a command is being handled
NoRelayOfCommand ==
  /\ Relayed(sent') => (Len(sent') = 1 /\ pc'["h"] = "ret")
  /\ pc'["h"] \notin {"idle", "ret"} => sent' = << >>

\* C17 as stated: a message that begins with "!" and whose first word is not
\* exactly !china, !top5 or !rating is taken as a plain message: forwarded to
\* Telegram, no reply, no mutation; and nothing handled as a command is
\* forwarded.
C17_InexactVerbIsPlain ==
  [][ /\ (pc["h"] = "idle" /\ pc'["h"] # "idle" /\ Bang(msg') /\ ~ExactVerb(msg'))
           => PlainStep(msg')
      /\ NoRelayOfCommand
    ]_vars

\* C17 amended: a message that begins with "!" but neither begins with !china
\* nor is exactly !top5 nor begins with !rating is taken as a plain message:
\* forwarded to Telegram, no reply, no mutation; and nothing handled as a
\* command is forwarded.
C17_UnrecognisedPrefixIsPlain ==
  [][ /\ (pc["h"] = "idle" /\ pc'["h"] # "idle" /\ Bang(msg') /\ ~Recognised(msg'))
           => PlainStep(msg')
      /\ NoRelayOfCommand
    ]_vars

\* !top5x was forwarded with its "!" escaped and the ledger is as loaded
C17_Witness ==
  /\ pc["h"] = "ret"
  /\ msg.content = Top5 \o <<"x">>
  /\ Len(sent) = 1
  /\ sent[1].to = "telegram"
  /\ sent[1].text = <<"\\">> \o Top5 \o <<"x">>
  /\ ~isModified
  /\ lastSave.outcome \in {"none", "skipped"}


\* C19: AddUser(id) for an id without a record inserts the record (id, 0),
\* leaves every other record alone and sets isModified; for an id that has a
\* record it changes neither the map (the rating is kept) nor isModified; in
\* neither case is the file touched.
C19_AddUser ==
  [][ (pc["v"] = "add" /\ pc'["v"] = "idle")
        => /\ vev.user \notin DOMAIN users
                => /\ DOMAIN users' = DOMAIN users \cup {vev.user}
                   /\ users'[vev.user].ID = vev.user
                   /\ users'[vev.user].Rating = 0
                   /\ \A k \in DOMAIN users : users'[k] = users[k]
                   /\ isModified'
           /\ vev.user \in DOMAIN users
                => /\ users' = users
                   /\ isModified' = isModified
           /\ file' = file
    ]_vars

\* the user joined twice: two goroutines monitor them, the one of the second
\* join has not checked yet, the point of the first is still there, and the
\* ledger is as saved with the flag still clear
C19_Witness ==
  \E t, o \in SupIds :
    /\ t # o
    /\ sup[t].user = U1 /\ sup[o].user = U1
    /\ sup[t].awarded = 1
    /\ pc[o] = "wait" /\ sup[o].checks = 0
    /\ pc["v"] = "idle"
    /\ RatingIn(users, U1) = 1
    /\ ~isModified
    /\ lastSaved.saved
    /\ RatingsOf(lastSaved.users) = RatingsOf(users)


\* C20: no step removes a record; after the startup load a step adds a record
\* only if it is AddUser in the VoiceStateUpdate handler, which adds the id of
\* the event, or the store of UpdateRating, which adds the id it was called
\* with; and every record is kept under its own ID.
C20_RecordsOnlyGrow ==
  [][ /\ users' # users
        => /\ DOMAIN users \subseteq DOMAIN users'
           /\ DOMAIN users' # DOMAIN users
                => \/ pc["main"] = "load" /\ pc'["main"] = "run"
                   \/ /\ pc["v"] = "add" /\ pc'["v"] = "idle"
                      /\ DOMAIN users' = DOMAIN users \cup {vev.user}
                   \/ \E t \in Tasks :
                        /\ pc[t] \in {"china_upd_rd", "upd_rd"} /\ pc'[t] # pc[t]
                        /\ DOMAIN users' = DOMAIN users \cup {UpdId(t)}
           /\ \A k \in DOMAIN users' : users'[k].ID = k
    ]_vars

\* the ledger started empty; U1 got a record by joining a voice channel, U2 by
\* an admin's !china command; both are in the file the shutdown save left
C20_Witness ==
  /\ exited
  /\ DOMAIN users = {U1, U2}
  /\ users[U2].Rating = -1
  /\ \E t \in SupIds : sup[t].user = U1
  /\ lastSave.by = "s"
  /\ file = FileJSON(EncodeUsers(users))


\* where a task that holds the mutex can be: in the operation it called, which
\* for UpdateRating includes the point between the lookup and the store
HoldPcs(t) == LockPcs(t) \cup {"china_upd_rd", "upd_rd"}

\* the task that holds the mutex takes a step of its own: it goes on in its
\* operation or returns from it (PeriodicSave returns to where it was)
HolderMoves == NextMutex /\ (pc'[mu] # pc[mu] \/ mu' = NoTask)

\* C18: the mutex is acquired only while it is free, by a task that is calling
\* one operation of the ledger; it is held only inside that operation; the
\* step by which the holder leaves the operation, on whichever return path,
\* releases it; while it is held no other task reads or writes the ledger; and
\* the holder can always go on, whatever the handler, the monitoring
\* goroutines, the periodic save and the signal goroutine are doing, so no
\* interleaving deadlocks on the mutex.
C18_MutexDiscipline ==
  /\ [](( mu # NoTask /\ ~exited ) => ENABLED HolderMoves)
  /\ [][ /\ (mu' # mu /\ mu' # NoTask)
              => /\ mu = NoTask
                 /\ pc[mu'] \in LockPcs(mu')
         /\ mu' # NoTask => pc'[mu'] \in HoldPcs(mu')
         /\ (mu # NoTask /\ pc'[mu] # pc[mu])
              => \/ mu' = NoTask
                 \/ mu' = mu /\ pc'[mu] \in {"china_upd_rd", "upd_rd"}
         /\ (mu # NoTask /\ mu' # mu)
              => /\ mu' = NoTask
                 /\ \A o \in Tasks \ {mu} : pc'[o] = pc[o] \/ pc[o] = "unused"
         /\ (mu # NoTask /\ mu' = mu /\ pc'[mu] = pc[mu])
              => /\ users' = users /\ isModified' = isModified /\ file' = file
                 /\ lastSave' = lastSave /\ rd' = rd
                 /\ hret' = hret \/ hret' = NoRet
       ]_vars

\* the periodic saver holds the mutex inside SaveToFile while the handler
\* waits to enter UpdateRating for a !china command and a monitoring goroutine
\* waits to enter it for an award
C18_Witness ==
  /\ mu = "p"
  /\ pc["p"] = "save"
  /\ pc["h"] = "china_upd"
  /\ \E t \in SupIds : pc[t] = "upd"
  /\ isModified
  /\ ~exited


\* users.json holds exactly the id -> rating map of m; no file counts as the
\* empty map
FileHolds(f, m) ==
  \/ f.kind = "absent" /\ DOMAIN m = {}
  \/ /\ f.kind = "json"
     /\ RatingsOf(DecodeInto(EmptyUsers, f.obj)) = RatingsOf(m)

\* C21: after the startup load, whenever isModified is false the file holds
\* the in-memory id -> rating map (no file: the empty map); whenever a save
\* writes the file, what it writes is the whole map and no UpdateRating is
\* between its lookup and its store; and a save that fails leaves isModified
\* true.
C21_CleanMeansFileCurrent ==
  [][ /\ (pc'["main"] # "load" /\ ~isModified') => FileHolds(file', users')
      /\ (file' # file /\ file'.kind = "json")
           => /\ file' = FileJSON(EncodeUsers(users))
              /\ \A t \in Tasks : pc[t] \notin {"china_upd_rd", "upd_rd"}
      /\ (lastSave' # lastSave /\ lastSave'.outcome \in {"createFailed", "encodeFailed"})
           => (isModified /\ isModified')
    ]_vars

(***************************************************************************)
(* Persistence: one monitoring goroutine and one adjustment command mutate *)
(* the ledger while PeriodicSave ticks; os.Create and Encode succeed and   *)
(* no signal arrives. PeriodicSave's ticker fires every second and its     *)
(* mu.Lock() is granted, although UpdateRating holds the lock now and      *)
(* then: strong fairness of the tick's SaveToFile. A goroutine inside      *)
(* UpdateRating's critical section runs on to its deferred Unlock: weak    *)
(* fairness of the store that ends it.                                     *)
(***************************************************************************)
PersistMessages ==
  { Message(U1, BridgedChannel, China \o SP \o Mention(U1) \o SP \o <<"+", "1">>) }

InitPersist ==
  /\ Constructed(InitFiles)
  /\ budget = [sups |-> 1, checks |-> 2, channels |-> {"vc1"}]

PeriodicSaveTick == SaveToFileSkip("p") \/ SaveToFileWrites("p")

\* the rest of UpdateRating's critical section, up to the deferred Unlock
CriticalSectionEnds == \E t \in SupIds \cup {"h"} : UpdateRatingWrite(t)

NextPersist ==
  \/ LoadFromFile
  \/ \E t \in SupIds \cup {"h"} : UpdateRatingRead(t) \/ UpdateRatingWrite(t)
  \/ SaveToFileSkip("h")
  \/ SaveToFileWrites("h")
  \/ PeriodicSaveTick
  \/ \E u \in VoiceUsers : VoiceEventLeave(u)
  \/ \E u \in VoiceUsers, c \in VoiceChannels : VoiceEventInChannel(u, c)
  \/ AddUserAndTrack
  \/ \E t \in SupIds : \/ TrackUserQueryFails(t)
                       \/ TrackUserObserved(t)
                       \/ TrackUserNotObserved(t)
  \/ \E m \in PersistMessages : ReceiveChina(m)
  \/ ChinaParsed
  \/ ChinaReply
  \/ HandlerReturn

SpecPersist ==
  /\ InitPersist
  /\ [][NextPersist]_vars
  /\ SF_vars(PeriodicSaveTick)
  /\ WF_vars(CriticalSectionEnds)

\* C22: with PeriodicSave scheduled and file writes succeeding, every state
\* in which isModified is true is followed by a state in which isModified is
\* false and users.json holds the encoding of the whole in-memory map, voice
\* awards and command adjustments included.
C22_EventuallyPersisted ==
  isModified ~> (~isModified /\ file = FileJSON(EncodeUsers(users)))

\* PeriodicSave has written a map that holds a voice award and an adjustment
C22_Witness ==
  /\ ~isModified
  /\ lastSave.by = "p"
  /\ lastSave.outcome = "written"
  /\ file = FileJSON(EncodeUsers(users))
  /\ \E t \in SupIds : sup[t].checks > 0
  /\ \E i \in 1..Len(sent) : sent[i].kind = "china_confirm"


(***************************************************************************)
(* Monitoring goroutines under a fair scheduler: every trackUser's ticker  *)
(* keeps ticking and a goroutine inside UpdateRating runs to its Unlock    *)
(* (weak fairness); the mu.Lock() of UpdateRating is granted although the  *)
(* other goroutines take the mutex now and then (strong fairness).         *)
(***************************************************************************)
InitTrack ==
  /\ Constructed({FileAbsent})
  /\ budget = [sups |-> MaxSup, checks |-> 2, channels |-> VoiceChannels]

\* case <-ticker.C: one interval check, whatever it finds
TrackUserTick(t) ==
  \/ TrackUserQueryFails(t)
  \/ TrackUserObserved(t)
  \/ TrackUserNotObserved(t)

NextTrack ==
  \/ LoadFromFile
  \/ \E t \in SupIds : UpdateRatingRead(t) \/ UpdateRatingWrite(t)
  \/ \E u \in VoiceUsers : VoiceEventLeave(u)
  \/ \E u \in VoiceUsers, c \in VoiceChannels : VoiceEventInChannel(u, c)
  \/ AddUserAndTrack
  \/ \E t \in SupIds : TrackUserTick(t)

SpecTrack ==
  /\ InitTrack
  /\ [][NextTrack]_vars
  /\ \A t \in SupIds : /\ WF_vars(TrackUserTick(t) \/ UpdateRatingWrite(t))
                       /\ SF_vars(UpdateRatingRead(t))

\* trackUser(s, userID, channelID) of slot t has not returned
Running(t) == pc[t] \in {"wait", "upd", "upd_rd"}

\* the session's state cache does not hold the user in the goroutine's channel
Away(t) == voiceStates[sup[t].user] # sup[t].channel

\* C23: a monitoring goroutine whose user is not in its channel terminates,
\* unless the user is seen in that channel again; the interval check that
\* finds the user away ends the goroutine and awards nothing; a goroutine
\* that has returned stays so; and a voice event alone (a leave included)
\* moves no monitoring goroutine.
C23_SupervisorTerminates ==
  /\ \A t \in SupIds :
       (Running(t) /\ Away(t)) ~> (pc[t] = "done" \/ (Running(t) /\ ~Away(t)))
  /\ [][ \A t \in SupIds :
           /\ (pc[t] = "wait" /\ pc'[t] # "wait" /\ Away(t))
                => (pc'[t] = "done" /\ users' = users /\ sup'[t] = sup[t])
           /\ (pc[t] = "done") => (pc'[t] = "done" /\ sup'[t] = sup[t])
           /\ (voiceStates' # voiceStates) => pc'[t] = pc[t]
       ]_vars

\* one goroutine has returned after an award with its user gone from the
\* channel, while another one of the same user is still waiting for its tick
C23_Witness ==
  \E t, o \in SupIds :
    /\ pc[t] = "done"
    /\ sup[t].awarded > 0
    /\ Away(t)
    /\ pc[o] = "wait"
    /\ sup[o].user = sup[t].user


(***************************************************************************)
(* An adjustment command of an admin for a user who is in no voice         *)
(* channel, next to PeriodicSave and to the monitoring goroutine of        *)
(* another user; every SaveToFile may fail in os.Create or in Encode.      *)
(***************************************************************************)
ConfirmMessages ==
  { Message(U1, BridgedChannel, China \o SP \o Mention(U2) \o SP \o <<"+", "1">>) }

InitConfirm ==
  /\ Constructed(InitFiles)
  /\ budget = [sups |-> 1, checks |-> 1, channels |-> {"vc1"}]

NextConfirm ==
  \/ LoadFromFile
  \/ \E t \in SupIds \cup {"h"} : UpdateRatingRead(t) \/ UpdateRatingWrite(t)
  \/ \E t \in {"h", "p"} : \/ SaveToFileSkip(t)
                          \/ SaveToFileCreateFails(t)
                          \/ SaveToFileEncodeFails(t)
                          \/ SaveToFileWrites(t)
  \/ \E u \in VoiceUsers, c \in VoiceChannels : VoiceEventInChannel(u, c)
  \/ AddUserAndTrack
  \/ \E t \in SupIds : TrackUserTick(t)
  \/ \E m \in ConfirmMessages : ReceiveChina(m)
  \/ ChinaParsed
  \/ ChinaReply
  \/ HandlerReturn

SpecConfirm == InitConfirm /\ [][NextConfirm]_vars

\* users.json can be decoded and gives id the rating the ledger holds for it
FileHasRating(id) ==
  /\ file.kind = "json"
  /\ ~LoadResult(EmptyUsers, file).err
  /\ id \in DOMAIN users
  /\ id \in DOMAIN LoadResult(EmptyUsers, file).users
  /\ LoadResult(EmptyUsers, file).users[id].Rating = users[id].Rating

\* the handler sends the confirmation of its adjustment: then users.json holds
\* the adjusted rating of the target (nothing but the command changes it)
ConfirmedIsDurable ==
  (pc["h"] = "china_reply" /\ pc'["h"] = "ret" /\ sent' = << ChinaConfirm >>)
    => FileHasRating(ChinaTarget(msg))

\* the command's SaveToFile returns an error: the map is left as it is, the
\* flag is still set, and the reply that follows is the failure reply
FailedSaveKeeps ==
  /\ (pc["h"] = "china_save" /\ pc'["h"] = "china_reply" /\ ~SaveOK(res'))
       => (users' = users /\ isModified /\ isModified')
  /\ (pc["h"] = "china_reply" /\ pc'["h"] = "ret" /\ ~SaveOK(res))
       => /\ sent' = << Reply("china_save_failed") >>
          /\ users' = users
          /\ isModified' = isModified

\* C24: whenever the confirmation of an adjustment command is sent, users.json
\* holds the adjustment, whatever PeriodicSave and the monitoring goroutines
\* did between the command's UpdateRating and its reply; and when the
\* command's SaveToFile fails, the failure reply is sent, the adjustment stays
\* in memory and isModified stays true.
C24_ConfirmationMeansDurable ==
  [][ConfirmedIsDurable /\ FailedSaveKeeps]_vars


====
